---- MODULE Spec2Model ----
(***************************************************************************)
(* rr (random_run): run a command over a randomized, filtered list of      *)
(* parameters, split into batches that respect an argument-count ceiling   *)
(* (-n) and a byte ceiling derived from the kernel limit (-m).             *)
(*                                                                         *)
(* The model follows the latest rr.C: option handling, the split of the    *)
(* positional tokens into the command and its parameters, randomization,   *)
(* the batch loop of run_commands and the supervision of the forked        *)
(* children (deal_with_child).                                             *)
(*                                                                         *)
(* Strings are TLA+ strings (strlen is Len).  A compiled std::regex is     *)
(* modelled by its language, the set of strings regex_match accepts.       *)
(* Iterators are 1-based positions into the vector they point into, a      *)
(* range [a, b[ is the positions a .. b-1.                                 *)
(***************************************************************************)
EXTENDS Integers, Sequences, FiniteSets, TLC

VARIABLES
    opt,        \* struct options, as returned by get_options
    v,          \* main: vector<path> v, the positional tokens
    rng,        \* main: the iterators cmd, end_cmd, args, end_args
    pc,         \* where the supervisor process is
    cv,         \* run_commands: vector<const char*> v
    i,          \* run_commands: the cursor into [a2, b2[
    initial,    \* run_commands: byte size of the command
    reset,      \* run_commands: number of words of the command
    current,    \* run_commands: running byte total of the batch
    k,          \* run_commands: the pid returned by fork
    r,          \* deal_with_child: the status waitpid stored
    kids,       \* forked children that were not waited for yet
    batches,    \* history: the batches built so far, and how each was run
    out,        \* stdout: the lines echoed so far
    err,        \* stderr: the last line written
    status,     \* how the supervisor ended: exit status or signal number
    call,       \* argument of a function applied on its own
    ret,        \* its result
    fs,         \* the file system: its directories and its other files
    w,          \* main: vector<path> w, the expanded parameters
    walk        \* main and recurse: the iterator it, seen, directory_it

vars == <<opt, v, rng, pc, cv, i, initial, reset, current, k, r, kids,
          batches, out, err, status, call, ret, fs, w, walk>>

(***************************************************************************)
(* Bounds of the model                                                     *)
(***************************************************************************)
\* parameters after the command name on the command line
MaxParams == 3
\* option flags given on one command line
MaxFlags == 2
\* largest value given to -n
MaxN == 3
\* regexes given to -x, and to -o, when keep is applied on its own
MaxRegex == 2
\* size_t is SizeWidth bits wide
SizeWidth == 16
\* the batch loop can spin: batches recorded before the model stops a run
MaxBatches == MaxParams + 2

\* part_001:95
MAXSIZE == 2^SizeWidth - 1

\* sysconf(_SC_ARG_MAX) and pathconf("/", _PC_PATH_MAX), part_001:162
ArgMax == 4096
PathMax == 1024
\* the environment of the run
Envp == <<"A=1", "HOME=/">>

\* the terminator pushed after every batch, part_001:385
nullptr == "<nullptr>"

\* exit codes and terminating signals of a command
ExitCodes == 0 .. 2
\* SIGKILL and SIGTERM; SIGKILL can be neither ignored nor blocked
Signals == {9, 15}
Unblockable == {9}

NoStatus == [kind |-> "none", code |-> 0]
Exited(s) == [kind |-> "exit", code |-> s]
Signaled(s) == [kind |-> "signal", code |-> s]
Outcomes == {Exited(s) : s \in ExitCodes} \cup {Signaled(s) : s \in Signals}

\* a line of stderr: its text, and the number printed in it
Msg(text) == <<text, 0>>

SeqsUpTo(S, n) == UNION {[1 .. m -> S] : m \in 0 .. n}

\* size_t arithmetic
Size(x) == x % (2 ^ SizeWidth)

strlen(s) == Len(s)

(***************************************************************************)
(* Option handling                                                         *)
(***************************************************************************)
RECURSIVE envsize(_)
envsize(e) == IF e = <<>> THEN 0 ELSE strlen(Head(e)) + 1 + envsize(Tail(e))

compute_maxsize(envp, margin) ==
    Size(Size(Size(ArgMax - PathMax) - envsize(envp)) - margin)

\* the byte budgets the runs reach with -m, and the margins that give them
SmallBudgets == {5, 8}
Margins == {compute_maxsize(Envp, 0) - b : b \in SmallBudgets}

\* the regexes of the runs: -x 'b.*' and -o '[ab]*' over the tokens below
RegexX == {"bb"}
RegexO == {"a", "bb"}

\* option handling that computes the byte ceiling under -p as well
get_options_computed(F, n, m) ==
    [ justone     |-> "1" \in F,
      verbose     |-> "v" \in F \/ "p" \in F,
      recursive   |-> "r" \in F \/ "D" \in F,
      recursedirs |-> "D" \in F,
      randomize   |-> ~("N" \in F),
      once        |-> "O" \in F,
      exitonerror |-> "e" \in F,
      printonly   |-> "p" \in F,
      rotate      |-> "R" \in F,
      dashdash    |-> ~("d" \in F),
      maxargs     |-> IF "n" \in F THEN n ELSE MAXSIZE,
      margin      |-> IF "m" \in F THEN m ELSE 0,
      maxsize     |-> compute_maxsize(Envp, IF "m" \in F THEN m ELSE 0),
      start       |-> <<>>,
      exclude     |-> IF "x" \in F THEN <<RegexX>> ELSE <<>>,
      only        |-> IF "o" \in F THEN <<RegexO>> ELSE <<>> ]

\* F: the flags given; n, m: the values of -n and -m
get_options(F, n, m) ==
    [ justone     |-> "1" \in F,
      verbose     |-> "v" \in F \/ "p" \in F,
      recursive   |-> "r" \in F \/ "D" \in F,
      recursedirs |-> "D" \in F,
      randomize   |-> ~("N" \in F),
      once        |-> "O" \in F,
      exitonerror |-> "e" \in F,
      printonly   |-> "p" \in F,
      rotate      |-> "R" \in F,
      dashdash    |-> ~("d" \in F),
      maxargs     |-> IF "n" \in F THEN n ELSE MAXSIZE,
      margin      |-> IF "m" \in F THEN m ELSE 0,
      maxsize     |-> IF "p" \in F THEN MAXSIZE
                      ELSE compute_maxsize(Envp, IF "m" \in F THEN m ELSE 0),
      start       |-> <<>>,
      exclude     |-> IF "x" \in F THEN <<RegexX>> ELSE <<>>,
      only        |-> IF "o" \in F THEN <<RegexO>> ELSE <<>> ]

(***************************************************************************)
(* Filtering on a list of regex                                            *)
(***************************************************************************)
regex_match(s, re) == s \in re

RECURSIVE any_match(_, _)
any_match(s, x) ==
    IF x = <<>> THEN FALSE
    ELSE IF regex_match(s, Head(x)) THEN TRUE
    ELSE any_match(s, Tail(x))

\* a transposition of the two tests: "only" decides first
keep_onlyfirst(s, o) ==
    IF Len(o.only) # 0 /\ any_match(s, o.only) THEN TRUE
    ELSE ~any_match(s, o.exclude) /\ Len(o.only) = 0

keep(s, o) ==
    IF any_match(s, o.exclude) THEN FALSE
    ELSE Len(o.only) = 0 \/ any_match(s, o.only)

(***************************************************************************)
(* main: the command and its parameters                                    *)
(***************************************************************************)
\* a search that stops at the last "--" instead of the first
find_dashdash_last(vec, from) ==
    IF \E p \in from .. Len(vec) : vec[p] = "--"
    THEN CHOOSE p \in from .. Len(vec) :
            /\ vec[p] = "--"
            /\ \A q \in p + 1 .. Len(vec) : vec[q] # "--"
    ELSE Len(vec) + 1

\* the first position >= from that holds "--", Len(vec)+1 when there is none
RECURSIVE find_dashdash(_, _)
find_dashdash(vec, from) ==
    IF from > Len(vec) THEN Len(vec) + 1
    ELSE IF vec[from] = "--" THEN from
    ELSE find_dashdash(vec, from + 1)

\* a split that never sets a command apart
split_bare(vec, o) ==
    [cmd |-> 1, end_cmd |-> 1, args |-> 1, end_args |-> Len(vec) + 1]

\* [cmd, end_cmd[ is the immovable program, [args, end_args[ the parameters
split(vec, o) ==
    IF o.printonly
    THEN [cmd |-> 1, end_cmd |-> 1, args |-> 1, end_args |-> Len(vec) + 1]
    ELSE LET mark == 2
             dd == find_dashdash(vec, mark)
         IN  IF dd = Len(vec) + 1
             THEN [cmd |-> 1, end_cmd |-> mark, args |-> mark,
                   end_args |-> Len(vec) + 1]
             ELSE [cmd |-> 1,
                   end_cmd |-> IF o.dashdash THEN dd + 1 ELSE dd,
                   args |-> dd + 1,
                   end_args |-> Len(vec) + 1]

Range(vec, a, b) == SubSeq(vec, a, b - 1)

\* the command as main passes it to run_commands
Fixed == Range(v, rng.cmd, rng.end_cmd)
\* the parameters as main passes them to run_commands
Pool == Range(v, rng.args, rng.end_args)

\* a scan that stops at the first parameter that matches
RECURSIVE start_scan_first(_, _, _, _, _)
start_scan_first(vec, args, scan, end_args, o) ==
    IF scan = end_args THEN args
    ELSE IF any_match(vec[scan], o.start) THEN scan
    ELSE start_scan_first(vec, args, scan + 1, end_args, o)

\* for (scan = args; scan != end_args; ++scan) if any_match args = scan
RECURSIVE start_scan(_, _, _, _, _)
start_scan(vec, args, scan, end_args, o) ==
    IF scan = end_args THEN args
    ELSE start_scan(vec,
                    IF any_match(vec[scan], o.start) THEN scan ELSE args,
                    scan + 1, end_args, o)

\* -s: last match wins
skip_to_start(vec, rg, o) ==
    IF Len(o.start) # 0
    THEN [rg EXCEPT !.args = start_scan(vec, rg.args, rg.args, rg.end_args, o)]
    ELSE rg

ParseArgs ==
    /\ pc = "main"
    /\ IF ~opt.printonly /\ Len(v) = 0
       THEN /\ pc' = "exit"
            /\ status' = 1
            /\ err' = Msg("Error: rr requires a cmd")
            /\ UNCHANGED <<rng, walk>>
       ELSE /\ IF opt.recursive
               THEN /\ rng' = split(v, opt)
                    /\ walk' = [walk EXCEPT !.it = split(v, opt).args]
                    /\ pc' = "expand"
               ELSE /\ rng' = skip_to_start(v, split(v, opt), opt)
                    /\ pc' = "randomize"
                    /\ UNCHANGED walk
            /\ UNCHANGED <<status, err>>
    /\ UNCHANGED <<opt, v, cv, i, initial, reset, current, k, r, kids,
                   batches, out, call, ret, fs, w>>

(***************************************************************************)
(* main: the recursive case, and recurse                                   *)
(*                                                                         *)
(* A path is the string of its names joined by "/".  The file system is    *)
(* the set of its directories and the set of its other files; the entries  *)
(* of a directory are the paths whose parent it is.                        *)
(***************************************************************************)
Root == "root"
Names == {"a", "b", "c", "1.txt", "2.txt"}

join(p, n) == p \o "/" \o n

\* the directories and the files a file system may hold below the root
CandidateDirs == {"root/a", "root/a/c", "root/b", "root/b/c", "root/b/c/a"}
CandidateFiles == {"root/1.txt", "root/a/1.txt", "root/b/2.txt",
                   "root/b/c/2.txt"}

\* the order of std::filesystem::path: name by name
PathOrder == <<"1.txt", "root", "root/1.txt", "root/a", "root/a/1.txt",
               "root/a/c", "root/b", "root/b/2.txt", "root/b/c",
               "root/b/c/2.txt", "root/b/c/a">>

\* path::parent_path, over the paths of the runs
Parents ==
    [q \in {PathOrder[n] : n \in 1 .. Len(PathOrder)} |->
        IF \E p \in CandidateDirs \cup {Root}, n \in Names : q = join(p, n)
        THEN CHOOSE p \in CandidateDirs \cup {Root} :
                \E n \in Names : q = join(p, n)
        ELSE ""]

parent_path(q) == Parents[q]

is_directory(p) == p \in fs.dirs

\* what a directory holds
entries(d) == {q \in fs.dirs \cup fs.files : parent_path(q) = d}

\* the iterator leaves the directories it has gone through
RECURSIVE settle(_)
settle(st) ==
    IF st # <<>> /\ st[Len(st)] = {}
    THEN settle(SubSeq(st, 1, Len(st) - 1))
    ELSE st

\* an iterator that does not go down into the directories it meets
increment_flat(st, p) ==
    settle([st EXCEPT ![Len(st)] = @ \ {p}])

\* recursive_directory_iterator, ++: past p, and down into p if it is a
\* directory
increment(st, p) ==
    LET left == [st EXCEPT ![Len(st)] = @ \ {p}]
    IN  settle(IF is_directory(p) THEN Append(left, entries(p)) ELSE left)

\* directory_it{p}
directory_it(p) == settle(<<entries(p)>>)

Ranks ==
    [q \in {PathOrder[n] : n \in 1 .. Len(PathOrder)} |->
        CHOOSE n \in 1 .. Len(PathOrder) : PathOrder[n] = q]

rank(p) == Ranks[p]

\* the elements of a set<path>, in its order
RECURSIVE sorted(_)
sorted(S) ==
    IF S = {} THEN <<>>
    ELSE LET m == CHOOSE x \in S : \A y \in S : rank(x) <= rank(y)
         IN  <<m>> \o sorted(S \ {m})

\* main: one turn of the loop over [args, end_args[
ExpandArg ==
    /\ pc = "expand"
    /\ walk.it # rng.end_args
    /\ LET p == v[walk.it]
       IN  IF is_directory(p)
           THEN IF ~any_match(p, opt.exclude)
                THEN \* recurse(it, w, o.recursedirs)
                     /\ walk' = [walk EXCEPT !.seen = {},
                                             !.stack = directory_it(p)]
                     /\ pc' = "recurse"
                     /\ UNCHANGED w
                ELSE \* we do also exclude directories
                     /\ walk' = [walk EXCEPT !.it = @ + 1]
                     /\ UNCHANGED <<w, pc>>
           ELSE /\ w' = Append(w, p)
                /\ walk' = [walk EXCEPT !.it = @ + 1]
                /\ UNCHANGED pc
    /\ UNCHANGED <<opt, v, rng, cv, i, initial, reset, current, k, r, kids,
                   batches, out, err, status, call, ret, fs>>

\* a first loop that records the directories and forgets none
RecurseStep_keepall ==
    /\ pc = "recurse"
    /\ walk.stack # <<>>
    /\ \E p \in walk.stack[Len(walk.stack)] :
          /\ walk' = [walk EXCEPT
                !.seen = IF opt.recursedirs /\ is_directory(p)
                         THEN @ \cup {p}
                         ELSE @,
                !.stack = increment(@, p)]
          /\ w' = IF ~opt.recursedirs /\ ~is_directory(p)
                  THEN Append(w, p)
                  ELSE w
    /\ UNCHANGED <<opt, v, rng, pc, cv, i, initial, reset, current, k, r,
                   kids, batches, out, err, status, call, ret, fs>>

\* recurse: one turn of the loop over directory_it{*it}
RecurseStep ==
    /\ pc = "recurse"
    /\ walk.stack # <<>>
    /\ \E p \in walk.stack[Len(walk.stack)] :
          /\ walk' = [walk EXCEPT
                !.seen = IF opt.recursedirs /\ is_directory(p)
                         THEN (@ \cup {p}) \ {parent_path(p)}
                         ELSE @,
                !.stack = increment(@, p)]
          /\ w' = IF ~opt.recursedirs /\ ~is_directory(p)
                  THEN Append(w, p)
                  ELSE w
    /\ UNCHANGED <<opt, v, rng, pc, cv, i, initial, reset, current, k, r,
                   kids, batches, out, err, status, call, ret, fs>>

\* recurse: the loop is over; then we can build our actual list
RecurseEnd ==
    /\ pc = "recurse"
    /\ walk.stack = <<>>
    /\ w' = IF opt.recursedirs THEN w \o sorted(walk.seen) ELSE w
    /\ walk' = [walk EXCEPT !.it = @ + 1, !.seen = {}]
    /\ pc' = "expand"
    /\ UNCHANGED <<opt, v, rng, cv, i, initial, reset, current, k, r, kids,
                   batches, out, err, status, call, ret, fs>>

\* main: args = begin(w), end_args = end(w); then the start marker
ExpandDone ==
    /\ pc = "expand"
    /\ walk.it = rng.end_args
    /\ LET vec == SubSeq(v, 1, rng.args - 1) \o w
       IN  /\ v' = vec
           /\ rng' = skip_to_start(vec,
                         [rng EXCEPT !.end_args = rng.args + Len(w)], opt)
    /\ pc' = "randomize"
    /\ UNCHANGED <<opt, cv, i, initial, reset, current, k, r, kids,
                   batches, out, err, status, call, ret, fs, w, walk>>

(***************************************************************************)
(* main: randomization                                                     *)
(***************************************************************************)
\* a rotation that starts at the beginning of the vector
rotate_whole(vec, first, middle, last) ==
    IF first = middle \/ middle = last THEN vec
    ELSE [p \in 1 .. Len(vec) |->
            IF p >= last THEN vec[p]
            ELSE vec[1 + ((p - 1 + (middle - first)) % (last - 1))]]

\* a rotation that mirrors the range
rotate_mirror(vec, first, middle, last) ==
    IF first = middle \/ middle = last THEN vec
    ELSE [p \in 1 .. Len(vec) |->
            IF p < first \/ p >= last THEN vec[p]
            ELSE vec[first + last - 1 - p]]

\* std::rotate: [first, last[ becomes [middle, last[ ++ [first, middle[
rotate(vec, first, middle, last) ==
    IF first = middle \/ middle = last THEN vec
    ELSE [p \in 1 .. Len(vec) |->
            IF p < first \/ p >= last THEN vec[p]
            ELSE vec[first + ((p - first + (middle - first)) % (last - first))]]

swap(vec, a, b) == [vec EXCEPT ![a] = vec[b], ![b] = vec[a]]

Perms(S) == {f \in [S -> S] : \A y \in S : \E x \in S : f[x] = y}

\* a shuffle that only ever turns the range around
shuffle_cycle(vec, first, last, f) ==
    [p \in 1 .. Len(vec) |->
        IF p < first \/ p >= last THEN vec[p]
        ELSE vec[first + ((p - first + (f[first] - first)) % (last - first))]]

\* std::shuffle of [first, last[ under the permutation f of its positions
shuffle(vec, first, last, f) ==
    [p \in 1 .. Len(vec) |->
        IF p < first \/ p >= last THEN vec[p] ELSE vec[f[p]]]

Randomize ==
    /\ pc = "randomize"
    /\ LET args == rng.args
           end_args == rng.end_args
       IN
       IF opt.justone /\ end_args = args
       THEN /\ pc' = "exit"
            /\ status' = 1
            /\ err' = Msg("Error: rr-1 requires arguments")
            /\ UNCHANGED <<v, rng>>
       ELSE
         /\ \/ /\ ~opt.randomize
               /\ v' = v
               /\ pc' = "run_commands"
            \/ /\ opt.randomize /\ (opt.justone \/ opt.rotate)
               /\ end_args - args >= 1
               /\ \E d \in 0 .. end_args - args - 1 :
                     v' = IF opt.rotate
                          THEN rotate(v, args, args + d, end_args)
                          ELSE swap(v, args, args + d)
               /\ pc' = "run_commands"
            \/ \* disttype dis(0, -1): the behaviour is undefined.  The value
               \* drawn is unconstrained: 0 leaves the range alone, any other
               \* value sends std::rotate outside the vector's storage and
               \* the process dies there.
               /\ opt.randomize /\ opt.rotate /\ ~opt.justone
               /\ end_args - args = 0
               /\ v' = v
               /\ pc' \in {"run_commands", "crash"}
            \/ /\ opt.randomize /\ ~opt.justone /\ ~opt.rotate
               /\ \E f \in Perms(args .. end_args - 1) :
                     v' = shuffle(v, args, end_args, f)
               /\ pc' = "run_commands"
         /\ rng' = IF opt.justone
                   THEN [rng EXCEPT !.end_args = args + 1]
                   ELSE rng
         /\ UNCHANGED <<status, err>>
    /\ UNCHANGED <<opt, cv, i, initial, reset, current, k, r, kids,
                   batches, out, call, ret,
                   fs, w, walk>>

(***************************************************************************)
(* run_commands: the core of the runner                                    *)
(***************************************************************************)
RECURSIVE bytes(_)
bytes(vec) == IF vec = <<>> THEN 0 ELSE strlen(Head(vec)) + 1 + bytes(Tail(vec))

\* a check against -n that lets through a command of exactly maxargs words
RunCommands_strict ==
    /\ pc = "run_commands"
    /\ LET vec == Range(v, rng.cmd, rng.end_cmd)
       IN  /\ cv' = vec
           /\ initial' = Size(bytes(vec))
           /\ reset' = Len(vec)
           /\ IF Len(vec) > opt.maxargs
              THEN /\ err' = Msg("Can't obey -n, initial command is too long")
                   /\ pc' = "exit"
                   /\ status' = 1
                   /\ UNCHANGED i
              ELSE /\ i' = rng.args
                   /\ pc' = "fill"
                   /\ UNCHANGED <<err, status>>
    /\ UNCHANGED <<opt, v, rng, current, k, r, kids, batches, out, call, ret,
                   fs, w, walk>>

\* first push the actual command, then check it against -n
RunCommands ==
    /\ pc = "run_commands"
    /\ LET vec == Range(v, rng.cmd, rng.end_cmd)
       IN  /\ cv' = vec
           /\ initial' = Size(bytes(vec))
           /\ reset' = Len(vec)
           /\ IF Len(vec) >= opt.maxargs
              THEN /\ err' = Msg("Can't obey -n, initial command is too long")
                   /\ pc' = "exit"
                   /\ status' = 1
                   /\ UNCHANGED i
              ELSE /\ i' = rng.args
                   /\ pc' = "fill"
                   /\ UNCHANGED <<err, status>>
    /\ UNCHANGED <<opt, v, rng, current, k, r, kids, batches, out, call, ret,
                   fs, w, walk>>

\* the inner loop that steps over the parameter it could not place
RECURSIVE fill_skip(_, _, _)
fill_skip(vec, cur, it) ==
    IF it = rng.end_args \/ Len(vec) = opt.maxargs
    THEN [v |-> vec, current |-> cur, i |-> it]
    ELSE LET s == v[it]
         IN  IF ~keep(s, opt) THEN fill_skip(vec, cur, it + 1)
             ELSE IF Size(cur + strlen(s) + 1) >= opt.maxsize
                  THEN [v |-> vec, current |-> cur, i |-> it + 1]
                  ELSE fill_skip(Append(vec, s), Size(cur + strlen(s) + 1),
                                 it + 1)

\* an inner loop that counts the bytes of what the filter rejects as well
RECURSIVE fill_countall(_, _, _)
fill_countall(vec, cur, it) ==
    IF it = rng.end_args \/ Len(vec) = opt.maxargs
    THEN [v |-> vec, current |-> cur, i |-> it]
    ELSE LET s == v[it]
         IN  IF ~keep(s, opt)
             THEN fill_countall(vec, Size(cur + strlen(s) + 1), it + 1)
             ELSE IF Size(cur + strlen(s) + 1) >= opt.maxsize
                  THEN [v |-> vec, current |-> cur, i |-> it]
                  ELSE fill_countall(Append(vec, s),
                                     Size(cur + strlen(s) + 1), it + 1)

\* an inner loop that closes a batch one word before -n asks for it
RECURSIVE fill_short(_, _, _)
fill_short(vec, cur, it) ==
    IF it = rng.end_args \/ Len(vec) + 1 >= opt.maxargs
    THEN [v |-> vec, current |-> cur, i |-> it]
    ELSE LET s == v[it]
         IN  IF ~keep(s, opt) THEN fill_short(vec, cur, it + 1)
             ELSE IF Size(cur + strlen(s) + 1) >= opt.maxsize
                  THEN [v |-> vec, current |-> cur, i |-> it]
                  ELSE fill_short(Append(vec, s), Size(cur + strlen(s) + 1),
                                  it + 1)

\* the inner loop: then the filtered params (some ?)
RECURSIVE fill(_, _, _)
fill(vec, cur, it) ==
    IF it = rng.end_args \/ Len(vec) = opt.maxargs
    THEN [v |-> vec, current |-> cur, i |-> it]
    ELSE LET s == v[it]
         IN  IF ~keep(s, opt) THEN fill(vec, cur, it + 1)
             ELSE IF Size(cur + strlen(s) + 1) >= opt.maxsize
                  THEN [v |-> vec, current |-> cur, i |-> it]
                  ELSE fill(Append(vec, s), Size(cur + strlen(s) + 1), it + 1)

\* a turn of the loop that echoes under -p only
FillBatch_quiet ==
    /\ pc = "fill"
    /\ Len(batches) < MaxBatches
    /\ LET f == fill(cv, initial, i)
       IN  /\ cv' = Append(f.v, nullptr)
           /\ current' = f.current
           /\ i' = f.i
           /\ out' = IF opt.printonly THEN Append(out, f.v) ELSE out
           /\ batches' = Append(batches,
                  [argv |-> f.v, from |-> i, to |-> f.i, how |-> "filled"])
    /\ pc' = "filled"
    /\ UNCHANGED <<opt, v, rng, initial, reset, k, r, kids, err, status,
                   call, ret,
                   fs, w, walk>>

\* one turn of the outer loop up to the terminator: the inner loop, the
\* echo, v.push_back(nullptr)
FillBatch ==
    /\ pc = "fill"
    /\ Len(batches) < MaxBatches
    /\ LET f == fill(cv, initial, i)
       IN  /\ cv' = Append(f.v, nullptr)
           /\ current' = f.current
           /\ i' = f.i
           /\ out' = IF opt.verbose THEN Append(out, f.v) ELSE out
           /\ batches' = Append(batches,
                  [argv |-> f.v, from |-> i, to |-> f.i, how |-> "filled"])
    /\ pc' = "filled"
    /\ UNCHANGED <<opt, v, rng, initial, reset, k, r, kids, err, status,
                   call, ret,
                   fs, w, walk>>

\* v.resize(n), n no larger than the size
resize(vec, n) == SubSeq(vec, 1, n)

\* a test that looks at the cursor alone
MoreToDo_cursor == i # rng.end_args

\* we didn't do them all yet
MoreToDo == i # rng.end_args /\ ~opt.once

Ran(how) == [batches EXCEPT ![Len(batches)].how = how]

\* -p: the batch was printed, on to the next one
PrintContinue ==
    /\ pc = "filled"
    /\ MoreToDo
    /\ opt.printonly
    /\ batches' = Ran("print")
    /\ cv' = resize(cv, reset)
    /\ pc' = "fill"
    /\ UNCHANGED <<opt, v, rng, i, initial, reset, current, k, r, kids,
                   out, err, status, call, ret,
                   fs, w, walk>>

\* -p: the last batch was printed, exit(0)
PrintBreak ==
    /\ pc = "filled"
    /\ ~MoreToDo
    /\ opt.printonly
    /\ batches' = Ran("printlast")
    /\ pc' = "exit"
    /\ status' = 0
    /\ UNCHANGED <<opt, v, rng, cv, i, initial, reset, current, k, r, kids,
                   out, err, call, ret,
                   fs, w, walk>>

\* a loop that forks every batch, the last one as well
Fork_every ==
    /\ pc = "filled"
    /\ ~opt.printonly
    /\ k' = Len(batches)
    /\ kids' = kids \cup {[pid |-> Len(batches), st |-> "forked",
                            argv |-> cv, outcome |-> NoStatus]}
    /\ batches' = Ran("fork")
    /\ pc' = "wait"
    /\ UNCHANGED <<opt, v, rng, cv, i, initial, reset, current, r, out, err,
                   status, call, ret,
                   fs, w, walk>>

\* get ready for another round: fork, the child is to exec the batch
Fork ==
    /\ pc = "filled"
    /\ MoreToDo
    /\ ~opt.printonly
    /\ k' = Len(batches)
    /\ kids' = kids \cup {[pid |-> Len(batches), st |-> "forked",
                            argv |-> cv, outcome |-> NoStatus]}
    /\ batches' = Ran("fork")
    /\ pc' = "wait"
    /\ UNCHANGED <<opt, v, rng, cv, i, initial, reset, current, r, out, err,
                   status, call, ret,
                   fs, w, walk>>

\* fork returned -1: system_error("fork")
ForkFails ==
    /\ pc = "filled"
    /\ MoreToDo
    /\ ~opt.printonly
    /\ batches' = Ran("forkfail")
    /\ err' = Msg("fork: error")
    /\ pc' = "exit"
    /\ status' = 1
    /\ UNCHANGED <<opt, v, rng, cv, i, initial, reset, current, k, r, kids,
                   out, call, ret,
                   fs, w, walk>>

\* sneaky end of loop: the supervisor execs the batch itself
ExecSelf ==
    /\ pc = "filled"
    /\ ~MoreToDo
    /\ ~opt.printonly
    /\ \/ /\ batches' = Ran("exec")
          /\ pc' = "replaced"
          /\ UNCHANGED <<err, status>>
       \/ \* execvp returned: system_error("execvp")
          /\ batches' = Ran("execfail")
          /\ err' = Msg("execvp: error")
          /\ pc' = "exit"
          /\ status' = 1
    /\ UNCHANGED <<opt, v, rng, cv, i, initial, reset, current, k, r, kids,
                   out, call, ret,
                   fs, w, walk>>

(***************************************************************************)
(* The forked child, and deal_with_child                                   *)
(***************************************************************************)
\* the child (k == 0) execs the batch
ChildExec ==
    /\ \E c \in kids :
         /\ c.st = "forked"
         /\ \/ /\ kids' = (kids \ {c}) \cup {[c EXCEPT !.st = "running"]}
               /\ UNCHANGED err
            \/ \* execvp returned in the child: system_error, exit(1)
               /\ kids' = (kids \ {c}) \cup
                     {[c EXCEPT !.st = "execfail", !.outcome = Exited(1)]}
               /\ err' = Msg("execvp: error")
    /\ UNCHANGED <<opt, v, rng, pc, cv, i, initial, reset, current, k, r,
                   batches, out, status, call, ret,
                   fs, w, walk>>

\* the command ends: it exits, or a signal kills it
ChildEnds ==
    /\ \E c \in kids, o \in Outcomes :
         /\ c.st = "running"
         /\ kids' = (kids \ {c}) \cup
               {[c EXCEPT !.st = "done", !.outcome = o]}
    /\ UNCHANGED <<opt, v, rng, pc, cv, i, initial, reset, current, k, r,
                   batches, out, err, status, call, ret,
                   fs, w, walk>>

\* a supervisor that does not block: it goes on while the child runs
WaitPid_nohang ==
    /\ pc = "wait"
    /\ r' = Exited(0)
    /\ pc' = "waited"
    /\ UNCHANGED <<opt, v, rng, cv, i, initial, reset, current, k, kids,
                   batches, out, err, status, call, ret,
                   fs, w, walk>>

\* waitpid(pid, &r, 0) returns pid once that child has ended
WaitPid ==
    /\ pc = "wait"
    /\ \E c \in kids :
         /\ c.pid = k
         /\ c.st \in {"done", "execfail"}
         /\ r' = c.outcome
         /\ kids' = kids \ {c}
    /\ pc' = "waited"
    /\ UNCHANGED <<opt, v, rng, cv, i, initial, reset, current, k, batches,
                   out, err, status, call, ret,
                   fs, w, walk>>

\* waitpid returns -1: system_error("waitpid")
WaitFails ==
    /\ pc = "wait"
    /\ err' = Msg("waitpid: error")
    /\ pc' = "exit"
    /\ status' = 1
    /\ UNCHANGED <<opt, v, rng, cv, i, initial, reset, current, k, r, kids,
                   batches, out, call, ret,
                   fs, w, walk>>

Report(st) ==
    IF st.kind = "exit" THEN <<"Command exited with", st.code>>
    ELSE <<"Command exited on signal #", st.code>>

\* a supervisor that takes the cursor back to retry a failed batch
GoOn_retry ==
    /\ cv' = resize(cv, reset)
    /\ i' = IF r = Exited(0) THEN i ELSE batches[Len(batches)].from
    /\ r' = NoStatus
    /\ pc' = "fill"
    /\ UNCHANGED status

\* back in run_commands: v.resize(reset), and another round
GoOn ==
    /\ cv' = resize(cv, reset)
    /\ i' = i
    /\ r' = NoStatus
    /\ pc' = "fill"
    /\ UNCHANGED status

\* -e that always leaves with the generic status
DealWithStatus_exit1 ==
    /\ pc = "waited"
    /\ \/ /\ r = Exited(0)
          /\ GoOn
          /\ UNCHANGED err
       \/ /\ r # Exited(0)
          /\ err' = Report(r)
          /\ IF opt.exitonerror
             THEN /\ pc' = "exit"
                  /\ status' = 1
                  /\ UNCHANGED <<cv, r, i>>
             ELSE GoOn
    /\ UNCHANGED <<opt, v, rng, initial, reset, current, k, kids, batches,
                   out, call, ret,
                   fs, w, walk>>

\* -e without the exit(1) that follows kill
DealWithStatus_nofallback ==
    /\ pc = "waited"
    /\ \/ /\ r.kind = "exit"
          /\ r.code = 0
          /\ GoOn
          /\ UNCHANGED err
       \/ /\ r.kind = "exit"
          /\ r.code # 0
          /\ err' = Report(r)
          /\ IF opt.exitonerror
             THEN /\ pc' = "exit"
                  /\ status' = r.code
                  /\ UNCHANGED <<cv, r, i>>
             ELSE GoOn
       \/ /\ r.kind = "signal"
          /\ err' = Report(r)
          /\ IF opt.exitonerror
             THEN \/ /\ pc' = "killed"
                     /\ status' = r.code
                     /\ UNCHANGED <<cv, r, i>>
                  \/ /\ r.code \notin Unblockable
                     /\ GoOn
             ELSE GoOn
    /\ UNCHANGED <<opt, v, rng, initial, reset, current, k, kids, batches,
                   out, call, ret,
                   fs, w, walk>>

\* a deal_with_child that leaves on every failure, -e or not
DealWithStatus_always ==
    /\ pc = "waited"
    /\ \/ /\ r.kind = "exit"
          /\ r.code = 0
          /\ GoOn
          /\ UNCHANGED err
       \/ /\ r.kind = "exit"
          /\ r.code # 0
          /\ err' = Report(r)
          /\ pc' = "exit"
          /\ status' = r.code
          /\ UNCHANGED <<cv, r, i>>
       \/ /\ r.kind = "signal"
          /\ err' = Report(r)
          /\ \/ /\ pc' = "killed"
                /\ status' = r.code
             \/ /\ r.code \notin Unblockable
                /\ pc' = "exit"
                /\ status' = 1
          /\ UNCHANGED <<cv, r, i>>
    /\ UNCHANGED <<opt, v, rng, initial, reset, current, k, kids, batches,
                   out, call, ret,
                   fs, w, walk>>

\* the rest of deal_with_child, and the end of the turn of the loop
DealWithStatus ==
    /\ pc = "waited"
    /\ \/ /\ r.kind = "exit"
          /\ r.code = 0
          /\ GoOn
          /\ UNCHANGED err
       \/ /\ r.kind = "exit"
          /\ r.code # 0
          /\ err' = Report(r)
          /\ IF opt.exitonerror
             THEN /\ pc' = "exit"
                  /\ status' = r.code
                  /\ UNCHANGED <<cv, r, i>>
             ELSE GoOn
       \/ /\ r.kind = "signal"
          /\ err' = Report(r)
          /\ IF opt.exitonerror
             THEN \* kill(getpid(), s), and exit(1) in case we didn't die
                  /\ \/ /\ pc' = "killed"
                        /\ status' = r.code
                     \/ /\ r.code \notin Unblockable
                        /\ pc' = "exit"
                        /\ status' = 1
                  /\ UNCHANGED <<cv, r, i>>
             ELSE GoOn
    /\ UNCHANGED <<opt, v, rng, initial, reset, current, k, kids, batches,
                   out, call, ret,
                   fs, w, walk>>

(***************************************************************************)
(* The runs                                                                *)
(***************************************************************************)
\* the tokens of a command line
Words == {"--", "a", "bb"}
TokenSeqs == {<<>>} \cup {<<"c">> \o p : p \in SeqsUpTo(Words, MaxParams)}

\* the flags of the runs
RunFlags == {"1", "d", "e", "N", "n", "m", "O", "o", "p", "R", "v", "x"}
FlagSets == {F \in SUBSET RunFlags : Cardinality(F) <= MaxFlags}

OptionSets ==
    UNION {{get_options(F, n, m) :
               n \in (IF "n" \in F THEN 0 .. MaxN ELSE {0}),
               m \in (IF "m" \in F THEN Margins ELSE {0})} : F \in FlagSets}

NoCall == [f |-> "none"]
\* a run that looks at no file
NoFiles == [dirs |-> {}, files |-> {}]
\* main did not get to the expansion
NoWalk == [it |-> 0, seen |-> {}, stack |-> <<>>]

Init ==
    /\ opt \in OptionSets
    /\ v \in TokenSeqs
    /\ rng = [cmd |-> 1, end_cmd |-> 1, args |-> 1, end_args |-> Len(v) + 1]
    /\ pc = "main"
    /\ cv = <<>>
    /\ i = 0
    /\ initial = 0
    /\ reset = 0
    /\ current = 0
    /\ k = 0
    /\ r = NoStatus
    /\ kids = {}
    /\ batches = <<>>
    /\ out = <<>>
    /\ err = Msg("")
    /\ status = 0
    /\ call = NoCall
    /\ ret = FALSE
    /\ fs = NoFiles
    /\ w = <<>>
    /\ walk = NoWalk

Next ==
    \/ ParseArgs
    \/ Randomize
    \/ RunCommands
    \/ FillBatch
    \/ PrintContinue
    \/ PrintBreak
    \/ Fork
    \/ ForkFails
    \/ ExecSelf
    \/ ChildExec
    \/ ChildEnds
    \/ WaitPid
    \/ WaitFails
    \/ DealWithStatus

Spec == Init /\ [][Next]_vars

(***************************************************************************)
(* keep applied on its own                                                 *)
(***************************************************************************)
Candidates == {"a", "bb", "c"}
\* the languages, among the candidates, of the regexes given to -x and -o
Regexes == SUBSET {"a", "bb"}

InitKeep ==
    /\ opt = get_options({}, 0, 0)
    /\ v = <<>>
    /\ rng = [cmd |-> 1, end_cmd |-> 1, args |-> 1, end_args |-> 1]
    /\ pc = "call"
    /\ cv = <<>>
    /\ i = 0
    /\ initial = 0
    /\ reset = 0
    /\ current = 0
    /\ k = 0
    /\ r = NoStatus
    /\ kids = {}
    /\ batches = <<>>
    /\ out = <<>>
    /\ err = Msg("")
    /\ status = 0
    /\ call \in [f : {"keep"}, s : Candidates,
                 exclude : SeqsUpTo(Regexes, MaxRegex),
                 only : SeqsUpTo(Regexes, MaxRegex)]
    /\ ret = FALSE
    /\ fs = NoFiles
    /\ w = <<>>
    /\ walk = NoWalk

ApplyKeep ==
    /\ pc = "call"
    /\ call.f = "keep"
    /\ ret' = keep(call.s, [opt EXCEPT !.exclude = call.exclude,
                                       !.only = call.only])
    /\ pc' = "returned"
    /\ UNCHANGED <<opt, v, rng, cv, i, initial, reset, current, k, r, kids,
                   batches, out, err, status, call,
                   fs, w, walk>>

SpecKeep == InitKeep /\ [][ApplyKeep]_vars

(***************************************************************************)
(* may_add of the first rr.C applied on its own                            *)
(***************************************************************************)
\* rr.C:122-130: x is the exclude vector, o the only vector
may_add(vec, s, x, o) ==
    IF any_match(s, x) THEN vec
    ELSE IF Len(o) = 0 \/ any_match(s, x) THEN Append(vec, s)
    ELSE vec

InitMayAdd ==
    /\ opt = get_options({}, 0, 0)
    /\ v = <<>>
    /\ rng = [cmd |-> 1, end_cmd |-> 1, args |-> 1, end_args |-> 1]
    /\ pc = "call"
    /\ cv = <<>>
    /\ i = 0
    /\ initial = 0
    /\ reset = 0
    /\ current = 0
    /\ k = 0
    /\ r = NoStatus
    /\ kids = {}
    /\ batches = <<>>
    /\ out = <<>>
    /\ err = Msg("")
    /\ status = 0
    /\ call \in [f : {"may_add"}, s : Candidates,
                 exclude : SeqsUpTo(Regexes, MaxRegex),
                 only : SeqsUpTo(Regexes, MaxRegex)]
    /\ ret = <<>>
    /\ fs = NoFiles
    /\ w = <<>>
    /\ walk = NoWalk

ApplyMayAdd ==
    /\ pc = "call"
    /\ call.f = "may_add"
    /\ ret' = may_add(<<>>, call.s, call.exclude, call.only)
    /\ pc' = "returned"
    /\ UNCHANGED <<opt, v, rng, cv, i, initial, reset, current, k, r, kids,
                   batches, out, err, status, call,
                   fs, w, walk>>

SpecMayAdd == InitMayAdd /\ [][ApplyMayAdd]_vars

(***************************************************************************)
(* main up to the randomization, with -s                                   *)
(***************************************************************************)
\* the flags that change how main splits the command line
SplitFlags == {"d", "p"}

InitStart ==
    /\ \E F \in SUBSET SplitFlags, st \in SeqsUpTo(Regexes, MaxRegex) :
          opt = [get_options(F, 0, 0) EXCEPT !.start = st]
    /\ v \in TokenSeqs
    /\ rng = [cmd |-> 1, end_cmd |-> 1, args |-> 1, end_args |-> Len(v) + 1]
    /\ pc = "main"
    /\ cv = <<>>
    /\ i = 0
    /\ initial = 0
    /\ reset = 0
    /\ current = 0
    /\ k = 0
    /\ r = NoStatus
    /\ kids = {}
    /\ batches = <<>>
    /\ out = <<>>
    /\ err = Msg("")
    /\ status = 0
    /\ call = NoCall
    /\ ret = FALSE
    /\ fs = NoFiles
    /\ w = <<>>
    /\ walk = NoWalk

SpecStart == InitStart /\ [][ParseArgs]_vars

(***************************************************************************)
(* main up to run_commands: the split and the randomization                *)
(***************************************************************************)
\* the flags that main itself looks at
MainFlags == {"1", "d", "N", "p", "R"}

InitRandomize ==
    /\ opt \in {get_options(F, 0, 0) : F \in SUBSET MainFlags}
    /\ v \in TokenSeqs
    /\ rng = [cmd |-> 1, end_cmd |-> 1, args |-> 1, end_args |-> Len(v) + 1]
    /\ pc = "main"
    /\ cv = <<>>
    /\ i = 0
    /\ initial = 0
    /\ reset = 0
    /\ current = 0
    /\ k = 0
    /\ r = NoStatus
    /\ kids = {}
    /\ batches = <<>>
    /\ out = <<>>
    /\ err = Msg("")
    /\ status = 0
    /\ call = NoCall
    /\ ret = FALSE
    /\ fs = NoFiles
    /\ w = <<>>
    /\ walk = NoWalk

NextRandomize ==
    \/ ParseArgs
    \/ Randomize

SpecRandomize == InitRandomize /\ [][NextRandomize]_vars

(***************************************************************************)
(* main up to the randomization, with -r and -D                            *)
(***************************************************************************)
\* parameters given to a run that expands directories
MaxArgs == 2

\* every directory but the root lies in a directory, and so does every file
FileSystems ==
    {f \in [dirs : {D \cup {Root} : D \in SUBSET CandidateDirs},
            files : SUBSET CandidateFiles] :
        \A q \in (f.dirs \cup f.files) \ {Root} : parent_path(q) \in f.dirs}

\* the parameters: the root, a directory below it, a plain file
ArgWords == {"root", "root/b", "1.txt"}

\* the languages of the regexes given to -x
RegexDirs == {{"root/b"}, {"root/b/c", "root/a"}}

InitExpand ==
    /\ \E F \in {{"r"}, {"D"}}, x \in SeqsUpTo(RegexDirs, 1) :
          opt = [get_options(F, 0, 0) EXCEPT !.exclude = x]
    /\ v \in {<<"c">> \o a : a \in SeqsUpTo(ArgWords, MaxArgs)}
    /\ fs \in FileSystems
    /\ rng = [cmd |-> 1, end_cmd |-> 1, args |-> 1, end_args |-> Len(v) + 1]
    /\ pc = "main"
    /\ cv = <<>>
    /\ i = 0
    /\ initial = 0
    /\ reset = 0
    /\ current = 0
    /\ k = 0
    /\ r = NoStatus
    /\ kids = {}
    /\ batches = <<>>
    /\ out = <<>>
    /\ err = Msg("")
    /\ status = 0
    /\ call = NoCall
    /\ ret = FALSE
    /\ w = <<>>
    /\ walk = NoWalk

NextExpand ==
    \/ ParseArgs
    \/ ExpandArg
    \/ RecurseStep
    \/ RecurseEnd
    \/ ExpandDone

SpecExpand == InitExpand /\ [][NextExpand]_vars

(***************************************************************************)
(* compute_maxsize applied on its own                                      *)
(***************************************************************************)
MaxEnv == 2

EnvStrings == {"A=1", "HOME=/", "PATH=/bin:/usr/bin"}

\* margins around the point where nothing is left of the limit
BudgetMargins ==
    {0, 1, 16} \cup
    {Size(ArgMax - PathMax) - d : d \in {0, 4, 11, 19, 23}} \cup
    {Size(ArgMax - PathMax) + 1, ArgMax, MAXSIZE}

InitBudget ==
    /\ opt = get_options({}, 0, 0)
    /\ v = <<>>
    /\ rng = [cmd |-> 1, end_cmd |-> 1, args |-> 1, end_args |-> 1]
    /\ pc = "call"
    /\ cv = <<>>
    /\ i = 0
    /\ initial = 0
    /\ reset = 0
    /\ current = 0
    /\ k = 0
    /\ r = NoStatus
    /\ kids = {}
    /\ batches = <<>>
    /\ out = <<>>
    /\ err = Msg("")
    /\ status = 0
    /\ call \in [f : {"compute_maxsize"},
                 envp : SeqsUpTo(EnvStrings, MaxEnv),
                 margin : BudgetMargins]
    /\ ret = 0
    /\ fs = NoFiles
    /\ w = <<>>
    /\ walk = NoWalk

ApplyMaxsize ==
    /\ pc = "call"
    /\ call.f = "compute_maxsize"
    /\ ret' = compute_maxsize(call.envp, call.margin)
    /\ pc' = "returned"
    /\ UNCHANGED <<opt, v, rng, cv, i, initial, reset, current, k, r, kids,
                   batches, out, err, status, call,
                   fs, w, walk>>

SpecBudget == InitBudget /\ [][ApplyMaxsize]_vars

(***************************************************************************)
(* Runs from the options as they are given                                 *)
(***************************************************************************)
\* the letters getopt knows, part_001:175
GetoptString == {"v", "1", "e", "D", "d", "E", "i", "l", "r", "R", "n", "m",
                 "N", "o", "O", "x", "p", "s"}

\* the letters given in the runs; -M is the one of the manual, with copies
GivenLetters == {"M", "N", "n", "p", "d", "v", "x", "m"}
MaxCopies == 2

\* the options of a command line: letters, and the arguments of -M, -n, -m
OptionCalls ==
    UNION {[f : {"get_options"},
            letters : {F},
            copies : IF "M" \in F THEN 1 .. MaxCopies ELSE {0},
            n : IF "n" \in F THEN 0 .. MaxN ELSE {0},
            m : IF "m" \in F THEN Margins ELSE {0}] :
              F \in {G \in SUBSET GivenLetters : Cardinality(G) <= MaxFlags}}

UsageError == Msg("Usage: rr [-1dDEeiNOpRrv] ...")

InitOptions ==
    /\ opt = get_options({}, 0, 0)
    /\ v \in TokenSeqs
    /\ rng = [cmd |-> 1, end_cmd |-> 1, args |-> 1, end_args |-> Len(v) + 1]
    /\ pc = "get_options"
    /\ cv = <<>>
    /\ i = 0
    /\ initial = 0
    /\ reset = 0
    /\ current = 0
    /\ k = 0
    /\ r = NoStatus
    /\ kids = {}
    /\ batches = <<>>
    /\ out = <<>>
    /\ err = Msg("")
    /\ status = 0
    /\ call \in OptionCalls
    /\ ret = FALSE
    /\ fs = NoFiles
    /\ w = <<>>
    /\ walk = NoWalk

\* get_options: a letter that getopt does not know ends in usage()
GetOptions ==
    /\ pc = "get_options"
    /\ IF call.letters \subseteq GetoptString
       THEN /\ opt' = get_options(call.letters, call.n, call.m)
            /\ pc' = "main"
            /\ UNCHANGED <<err, status>>
       ELSE /\ err' = UsageError
            /\ status' = 1
            /\ pc' = "exit"
            /\ UNCHANGED opt
    /\ UNCHANGED <<v, rng, cv, i, initial, reset, current, k, r, kids,
                   batches, out, call, ret, fs, w, walk>>

NextOptions == GetOptions \/ Next

SpecOptions == InitOptions /\ [][NextOptions]_vars

(***************************************************************************)
(* main with -l: the lines of the list files                               *)
(***************************************************************************)
MaxLines == 2
MaxLists == 2

\* what a line of a list file may hold
LineWords == {"--", "a", "x y"}

\* what -l may name: a file with its lines, a directory, a file that does
\* not open, a file whose reading fails after its lines
ListFiles ==
    {[kind |-> "file", lines |-> l] : l \in SeqsUpTo(LineWords, MaxLines)}
    \cup {[kind |-> "directory", lines |-> <<>>],
          [kind |-> "missing", lines |-> <<>>],
          [kind |-> "bad", lines |-> <<"a">>]}

InitList ==
    /\ opt \in {get_options(F, 0, 0) : F \in SUBSET SplitFlags}
    /\ v \in TokenSeqs
    /\ rng = [cmd |-> 1, end_cmd |-> 1, args |-> 1, end_args |-> Len(v) + 1]
    /\ pc = "add_lines"
    /\ cv = <<>>
    /\ i = 0
    /\ initial = 0
    /\ reset = 0
    /\ current = 0
    /\ k = 0
    /\ r = NoStatus
    /\ kids = {}
    /\ batches = <<>>
    /\ out = <<>>
    /\ err = Msg("")
    /\ status = 0
    /\ \E l \in SeqsUpTo(ListFiles, MaxLists) :
          call = [f |-> "main", argv |-> v, list |-> l, next |-> 1]
    /\ ret = FALSE
    /\ fs = NoFiles
    /\ w = <<>>
    /\ walk = NoWalk

\* main: for (auto& filename: o.list) add_lines(v, filename), one file
AddLines ==
    /\ pc = "add_lines"
    /\ call.next <= Len(call.list)
    /\ LET file == call.list[call.next]
       IN  /\ IF file.kind = "directory"
              THEN /\ err' = Msg("Can't read directory")
                   /\ pc' = "exit" /\ status' = 1
                   /\ UNCHANGED v
              ELSE IF file.kind = "missing"
              THEN /\ err' = Msg("Failed to open")
                   /\ pc' = "exit" /\ status' = 1
                   /\ UNCHANGED v
              ELSE IF file.kind = "bad"
              THEN /\ v' = v \o file.lines
                   /\ err' = Msg("Error while reading")
                   /\ pc' = "exit" /\ status' = 1
              ELSE /\ v' = v \o file.lines
                   /\ UNCHANGED <<err, status, pc>>
    /\ call' = [call EXCEPT !.next = @ + 1]
    /\ UNCHANGED <<opt, rng, cv, i, initial, reset, current, k, r, kids,
                   batches, out, ret, fs, w, walk>>

\* main: every list file is read
ListsDone ==
    /\ pc = "add_lines"
    /\ call.next > Len(call.list)
    /\ pc' = "main"
    /\ UNCHANGED <<opt, v, rng, cv, i, initial, reset, current, k, r, kids,
                   batches, out, err, status, call, ret, fs, w, walk>>

NextList == AddLines \/ ListsDone \/ ParseArgs

SpecList == InitList /\ [][NextList]_vars

(***************************************************************************)
(* Runs in the order given: cmd and up to MaxPool parameters               *)
(***************************************************************************)
MaxPool == 4

PoolWords == <<"a", "b", "c", "d", "ee">>

\* the parameters of these runs: words of PoolWords, in its order
RECURSIVE Picked(_, _)
Picked(S, n) ==
    IF n > Len(PoolWords) THEN <<>>
    ELSE (IF n \in S THEN <<PoolWords[n]>> ELSE <<>>) \o Picked(S, n + 1)

Pools ==
    {Picked(S, 1) : S \in {T \in SUBSET (1 .. Len(PoolWords)) :
                              Cardinality(T) <= MaxPool}}

\* -x '[bd]' over these words
RegexBD == {"b", "d"}

\* the margins that leave room for cmd and nothing, and for cmd and two
\* parameters of one letter
BatchMargins == {compute_maxsize(Envp, 0) - b : b \in {6, 9}}

BatchOptions ==
    UNION {{[get_options(F \cup {"N"}, n, m) EXCEPT
                !.exclude = IF "x" \in F THEN <<RegexBD>> ELSE <<>>] :
               n \in (IF "n" \in F THEN 0 .. MaxN ELSE {0}),
               m \in (IF "m" \in F THEN BatchMargins ELSE {0})} :
           F \in SUBSET {"n", "m", "x", "p"}}

InitBatches ==
    /\ opt \in BatchOptions
    /\ v \in {<<"cmd">> \o p : p \in Pools}
    /\ rng = [cmd |-> 1, end_cmd |-> 1, args |-> 1, end_args |-> Len(v) + 1]
    /\ pc = "main"
    /\ cv = <<>>
    /\ i = 0
    /\ initial = 0
    /\ reset = 0
    /\ current = 0
    /\ k = 0
    /\ r = NoStatus
    /\ kids = {}
    /\ batches = <<>>
    /\ out = <<>>
    /\ err = Msg("")
    /\ status = 0
    /\ call = NoCall
    /\ ret = FALSE
    /\ fs = NoFiles
    /\ w = <<>>
    /\ walk = NoWalk

SpecBatches == InitBatches /\ [][Next]_vars

(***************************************************************************)
(* Properties                                                              *)
(***************************************************************************)
Last == batches[Len(batches)]

\* the parameters of a batch: what follows the command
Slice(b) == SubSeq(b.argv, reset + 1, Len(b.argv))

RECURSIVE Concat(_)
Concat(ss) == IF ss = <<>> THEN <<>> ELSE Head(ss) \o Concat(Tail(ss))

Slices == [n \in 1 .. Len(batches) |-> Slice(batches[n])]

Kept(s) == keep(s, opt)

\* the supervisor is gone
Ended == pc \in {"exit", "killed", "replaced", "crash"}

\* C1: every batch has at most maxargs arguments (the command included, the
\* terminator excluded) and a byte size, the sum of length + 1 over its
\* arguments, strictly below maxsize.
C1_BatchBudget ==
    \A n \in 1 .. Len(batches) :
        /\ Len(batches[n].argv) <= opt.maxargs
        /\ bytes(batches[n].argv) < opt.maxsize

\* C2: without -O and -1, once the final batch is out, the parameters of the
\* batches, concatenated in the order of the batches, are the randomized
\* pool restricted to the parameters the filter keeps.
C2_Coverage ==
    (/\ ~opt.once /\ ~opt.justone
     /\ Len(batches) > 0
     /\ Last.how \in {"exec", "execfail", "printlast"})
    => Concat(Slices) = SelectSeq(Pool, Kept)

C2_Witness ==
    /\ pc = "replaced"
    /\ ~opt.once /\ ~opt.justone /\ opt.randomize
    /\ Len(batches) >= 2
    /\ \E p \in 1 .. Len(Pool) : ~Kept(Pool[p])
    /\ Len(Concat(Slices)) >= 2

\* C3: in every mode of randomization every batch begins with the command as
\* main split it off, word for word; once split off, the command is never
\* changed, by randomization or by anything that follows.
C3_FixedPrefix ==
    /\ [](\A n \in 1 .. Len(batches) :
             /\ Len(batches[n].argv) >= Len(Fixed)
             /\ SubSeq(batches[n].argv, 1, Len(Fixed)) = Fixed)
    /\ [][pc # "main" => Fixed' = Fixed]_vars

C3_Witness ==
    /\ pc = "replaced"
    /\ opt.rotate /\ opt.randomize
    /\ Len(Fixed) = 2
    /\ Len(batches) >= 2
    /\ Pool = <<"bb", "a">>

\* C4: keep is false whenever the candidate matches a regex of exclude, also
\* when it matches one of only; otherwise it is true iff only is empty or
\* the candidate matches a regex of only.
C4_Keep ==
    (pc = "returned" /\ call.f = "keep") =>
        ret = IF \E n \in 1 .. Len(call.exclude) : call.s \in call.exclude[n]
              THEN FALSE
              ELSE \/ call.only = <<>>
                   \/ \E n \in 1 .. Len(call.only) : call.s \in call.only[n]

C4_Witness ==
    /\ pc = "returned"
    /\ call.f = "keep"
    /\ \E n \in 1 .. Len(call.exclude) : call.s \in call.exclude[n]
    /\ \E n \in 1 .. Len(call.only) : call.s \in call.only[n]
    /\ ret = FALSE

\* C5: every batch that is not the final one advances the cursor by at least
\* one parameter of the pool (which is what makes the loop end).
C5_Progress ==
    \A n \in 1 .. Len(batches) :
        batches[n].how \in {"fork", "print"} =>
            batches[n].to > batches[n].from

\* what the supervisor itself does and holds
supervisor == <<pc, cv, i, current, k, r, batches, out, status>>

\* C6: with -e, when the child of a batch that is not the last exits with a
\* code s # 0, this is reported and the run ends at once with status s:
\* nothing is built, echoed or forked after it.
C6_StopOnExit ==
    /\ [][(pc = "waited" /\ opt.exitonerror /\ r.kind = "exit" /\ r.code # 0)
           => /\ pc' = "exit"
              /\ status' = r.code
              /\ err' = Report(r)
              /\ batches' = batches /\ out' = out /\ kids' = kids]_vars
    /\ [][(pc = "exit") => (UNCHANGED supervisor)]_vars

C6_Witness ==
    /\ pc = "exit"
    /\ opt.exitonerror
    /\ r = Exited(2)
    /\ status = 2
    /\ err = Report(r)
    /\ i # rng.end_args

\* C7: without -e, a batch whose child exits with a code # 0 or dies of a
\* signal is reported and the supervisor goes on with the next batch, which
\* starts where the failed one ended: the cursor never goes back, and no
\* outcome of a child ends the run.
C7_ContinueAfterFailure ==
    /\ [][(pc = "waited" /\ ~opt.exitonerror)
           => /\ pc' = "fill"
              /\ i' = i
              /\ batches' = batches
              /\ (r # Exited(0) => err' = Report(r))]_vars
    /\ [](\A n \in 1 .. Len(batches) - 1 :
             batches[n + 1].from = batches[n].to)
    /\ [](~opt.exitonerror => (pc # "killed" /\ (Ended => r = NoStatus)))

C7_Witness ==
    /\ ~opt.exitonerror
    /\ pc = "filled"
    /\ Len(batches) = 2
    /\ err = Report(Signaled(15))
    /\ batches[2].from = batches[1].to
    /\ batches[2].from > batches[1].from

\* C8: with -e, when the child of a batch is killed by signal s, this is
\* reported, the supervisor sends s to itself and, if it did not die of it,
\* exits with status 1; either way nothing is forked after it.
C8_StopOnSignal ==
    /\ [][(pc = "waited" /\ opt.exitonerror /\ r.kind = "signal")
           => /\ err' = Report(r)
              /\ \/ pc' = "killed" /\ status' = r.code
                 \/ pc' = "exit" /\ status' = 1
              /\ batches' = batches /\ kids' = kids]_vars
    /\ [][(pc \in {"exit", "killed"}) => (UNCHANGED supervisor)]_vars

C8_Witness ==
    /\ pc = "exit"
    /\ opt.exitonerror
    /\ r = Signaled(15)
    /\ err = Report(r)
    /\ status = 1
    /\ i # rng.end_args

Decided(b) == b.how # "filled"

\* C9, as claimed: in a run without -p every batch but the last is run in a
\* forked child the supervisor waits for, and the last batch, which is the
\* one after whose filling the cursor is at the end of the pool, is run by
\* the supervisor replacing itself, which is the last thing it does.
C9_Original ==
    ~opt.printonly =>
        \A n \in 1 .. Len(batches) :
            /\ n < Len(batches) =>
                  /\ batches[n].how = "fork"
                  /\ \A c \in kids : c.pid # n
            /\ Decided(batches[n]) =>
                  (batches[n].how \in {"exec", "execfail"}
                      <=> batches[n].to = rng.end_args)
            /\ batches[n].how = "exec" => (n = Len(batches) /\ pc = "replaced")

\* C9, amended: the batch the supervisor replaces itself with is the one
\* after whose filling the cursor is at the end of the pool or, with -O,
\* the first batch whatever the cursor.
C9_LastBatchExec ==
    ~opt.printonly =>
        \A n \in 1 .. Len(batches) :
            /\ n < Len(batches) =>
                  /\ batches[n].how = "fork"
                  /\ \A c \in kids : c.pid # n
            /\ Decided(batches[n]) =>
                  (batches[n].how \in {"exec", "execfail"}
                      <=> (batches[n].to = rng.end_args \/ opt.once))
            /\ batches[n].how = "exec" => (n = Len(batches) /\ pc = "replaced")

C9_Witness ==
    /\ ~opt.printonly
    /\ pc = "replaced"
    /\ Len(batches) = 3
    /\ batches[1].how = "fork" /\ batches[2].how = "fork"
    /\ Last.how = "exec"
    /\ kids = {}

\* C10: at most one child is outstanding at any time; no batch is filled or
\* forked while a child is not waited for, and the cursor moves only then.
C10_OneChild ==
    /\ [](/\ Cardinality(kids) <= 1
          /\ pc \in {"fill", "filled"} => kids = {})
    /\ [][i' # i => (kids = {} /\ kids' = {})]_vars

C10_Witness ==
    /\ pc = "wait"
    /\ Len(batches) = 2
    /\ batches[1].how = "fork"
    /\ Cardinality(kids) = 1
    /\ \E c \in kids : c.pid = 2 /\ c.st = "running"

\* C11: with -p nothing is ever forked or exec'd, whatever -O, -1 and -n:
\* every batch is echoed and only echoed, the byte ceiling is MAXSIZE so a
\* batch that is not the last one is cut by -n alone, and a run that went
\* through its batches ends with exit(0) after the last one was printed.
C11_DryRun ==
    opt.printonly =>
        /\ kids = {}
        /\ pc \notin {"wait", "waited", "replaced", "killed"}
        /\ opt.maxsize = MAXSIZE
        /\ Len(out) = Len(batches)
        /\ \A n \in 1 .. Len(batches) :
              /\ batches[n].how \in {"filled", "print", "printlast"}
              /\ out[n] = batches[n].argv
              /\ batches[n].how = "print" =>
                    Len(batches[n].argv) = opt.maxargs
              /\ batches[n].how = "printlast" =>
                    /\ n = Len(batches)
                    /\ batches[n].to = rng.end_args \/ opt.once
                    /\ pc = "exit" /\ status = 0
        /\ (pc = "exit" /\ Len(batches) > 0) =>
              (Last.how = "printlast" /\ status = 0)

C11_Witness ==
    /\ opt.printonly
    /\ pc = "exit"
    /\ status = 0
    /\ opt.maxargs = 1
    /\ Len(batches) = 3
    /\ Last.how = "printlast"
    /\ kids = {}

CantObey == Msg("Can't obey -n, initial command is too long")

\* C12: when the command alone has maxargs words or more, run_commands
\* reports that it cannot obey -n and exits with status 1, and no batch is
\* ever filled, echoed or spawned; when the command has fewer words than
\* maxargs that error is never raised.
C12_CantObey ==
    /\ []((pc # "main" /\ Len(Fixed) >= opt.maxargs) =>
             (batches = <<>> /\ out = <<>> /\ kids = {}
              /\ pc \notin {"fill", "filled", "wait", "waited", "replaced"}))
    /\ [][(pc = "run_commands" /\ Len(Fixed) >= opt.maxargs) =>
             (pc' = "exit" /\ status' = 1 /\ err' = CantObey)]_vars
    /\ []((pc # "main" /\ Len(Fixed) < opt.maxargs) => err # CantObey)

C12_Witness ==
    /\ pc = "exit"
    /\ status = 1
    /\ err = CantObey
    /\ Len(Fixed) = 2
    /\ opt.maxargs = 2
    /\ Len(Pool) >= 1
    /\ batches = <<>>

\* the command line of the manual's example for -n: rr -n3 cmd flag -- params
ManualExample ==
    /\ opt = get_options({"n"}, 3, 0)
    /\ Len(v) >= 4
    /\ v[2] # "--"
    /\ v[3] = "--"

\* C13: -n counts the full command line: with -n 3 and the command line
\* cmd flag -- params, nothing else set, the run is not refused and every
\* batch holds exactly one parameter.
C13_OnePerBatch ==
    ManualExample =>
        /\ err # CantObey
        /\ \A n \in 1 .. Len(batches) : Len(Slice(batches[n])) = 1

FullPool == Range(v, rng.args, Len(v) + 1)

\* C15: with -1, when at least one parameter passes the filter, there is
\* exactly one invocation and its argument vector is the command followed
\* by exactly one parameter of the pool.
C15_SinglePick ==
    (/\ opt.justone /\ ~opt.printonly
     /\ \E p \in 1 .. Len(FullPool) : Kept(FullPool[p])
     /\ Len(batches) > 0
     /\ Decided(Last))
    => /\ Len(batches) = 1
       /\ Last.how \in {"exec", "execfail"}
       /\ SubSeq(Last.argv, 1, reset) = Fixed
       /\ Len(Slice(Last)) = 1
       /\ \E p \in 1 .. Len(FullPool) : Slice(Last) = <<FullPool[p]>>

NoArguments == Msg("Error: rr-1 requires arguments")
NoCommand == Msg("Error: rr requires a cmd")

\* C16: when no parameter is left after filtering and -1 or -R is given
\* (-R without -N, which would turn the rotation off), the run reports a configuration error and exits with a failing status:
\* no index is drawn, the batch loop is never reached, nothing is spawned.
C16_EmptyPool ==
    (/\ pc # "main"
     /\ opt.justone \/ (opt.rotate /\ opt.randomize)
     /\ SelectSeq(FullPool, Kept) = <<>>)
    => /\ pc \in {"randomize", "exit"}
       /\ pc = "exit" => (status = 1 /\ err \in {NoArguments, NoCommand})
       /\ batches = <<>>
       /\ kids = {}

ExecvpError == Msg("execvp: error")

\* C17: a batch that could not be spawned ends the run, with or without -e:
\* when fork fails, or execvp fails in the supervisor, the error is reported
\* and the run exits with a failing status; when the supervisor has waited
\* for a child whose execvp failed (its report is the last line of stderr),
\* its next step is to exit with a failing status, and no batch follows.
C17_SpawnFatal ==
    /\ [](\A n \in 1 .. Len(batches) :
             batches[n].how \in {"forkfail", "execfail"} =>
                 /\ n = Len(batches)
                 /\ pc = "exit" /\ status = 1
                 /\ err \in {Msg("fork: error"), ExecvpError})
    /\ [][(pc = "waited" /\ err = ExecvpError) =>
             (pc' = "exit" /\ status' # 0 /\ batches' = batches)]_vars

\* the parameters as main splits them off, before -s is looked at
Params == Range(v, split(v, opt).args, split(v, opt).end_args)
\* the positions of the parameters that match a regex of -s
Marks == {p \in 1 .. Len(Params) :
             \E n \in 1 .. Len(opt.start) : Params[p] \in opt.start[n]}
Max(S) == CHOOSE x \in S : \A y \in S : y <= x

\* C18: with -s the pool handed to the randomization is the suffix of the
\* parameters, in their original order, that begins at the last parameter
\* matching a regex of -s, that parameter included; what comes before it is
\* dropped; when no parameter matches, the pool is all the parameters.  The
\* command is not touched.
C18_StartMarker ==
    pc = "randomize" =>
        /\ Pool = IF Marks = {} THEN Params
                  ELSE SubSeq(Params, Max(Marks), Len(Params))
        /\ Fixed = Range(v, split(v, opt).cmd, split(v, opt).end_cmd)

C18_Witness ==
    /\ pc = "randomize"
    /\ Cardinality(Marks) = 2
    /\ Max(Marks) = 2
    /\ Len(Params) = 3
    /\ Pool = SubSeq(Params, 2, 3)

\* the pool rotated left by kk
RotatedBy(pool, kk) ==
    [j \in 1 .. Len(pool) |-> pool[1 + ((j - 1 + kk) % Len(pool))]]

RotateMode == opt.randomize /\ opt.rotate

\* C19: with -R on a pool of len > 0 parameters, the randomization leaves
\* the pool rotated left by some k in 0 .. len-1 (result[j] is
\* pool[(j + k) mod len]) and nothing else of the command line changed, and
\* for every k in 0 .. len-1 the rotation by k is one of its outcomes.
C19_Rotate ==
    /\ [][(pc = "randomize" /\ RotateMode /\ Len(FullPool) > 0) =>
             /\ pc' = "run_commands"
             /\ \E kk \in 0 .. Len(FullPool) - 1 :
                   FullPool' = RotatedBy(FullPool, kk)
             /\ Len(v') = Len(v)
             /\ SubSeq(v', 1, rng.args - 1) = SubSeq(v, 1, rng.args - 1)]_vars
    /\ []((pc = "randomize" /\ RotateMode /\ Len(FullPool) > 0) =>
             \A kk \in 0 .. Len(FullPool) - 1 :
                 ENABLED (Randomize /\ FullPool' = RotatedBy(FullPool, kk)))

C19_Witness ==
    /\ pc = "run_commands"
    /\ RotateMode /\ opt.printonly
    /\ FullPool = <<"a", "bb", "c", "--">>

ShuffleMode == opt.randomize /\ ~opt.justone /\ ~opt.rotate

Count(seq, x) == Cardinality({p \in 1 .. Len(seq) : seq[p] = x})

\* same elements with the same multiplicities
IsPermutation(a, b) ==
    /\ Len(a) = Len(b)
    /\ \A p \in 1 .. Len(b) : Count(a, b[p]) = Count(b, b[p])

\* the pool reordered by the permutation f of its positions
Reordered(pool, f) == [j \in 1 .. Len(pool) |-> pool[f[j]]]

RECURSIVE IsUnder(_, _)
IsUnder(q, d) ==
    /\ q \in DOMAIN Parents
    /\ parent_path(q) # ""
    /\ \/ parent_path(q) = d
       \/ IsUnder(parent_path(q), d)

HasSubdir(d) == \E e \in fs.dirs : parent_path(e) = d

\* what a call of recurse has appended to w
Added == SubSeq(w', Len(w) + 1, Len(w'))

\* a call of recurse for the argument at it returns
Recursed == pc = "recurse" /\ pc' = "expand"

ScenarioTree ==
    [dirs |-> {"root", "root/a", "root/b", "root/b/c"},
     files |-> {"root/a/1.txt", "root/b/c/2.txt"}]

\* C22, as stated: the expansion of the tree root/{a/{1.txt}, b/{c/{2.txt}}}
\* with -D yields root/a only.
C22_Original ==
    [][(Recursed /\ opt.recursedirs /\ fs = ScenarioTree
            /\ v[walk.it] = Root) =>
          w' = w \o <<"root/a">>]_vars

\* C22: the expansion of the tree root/{a/{1.txt}, b/{c/{2.txt}}} with -D
\* yields root/a and root/b/c, in that order: both have no subdirectory.
C22_ScenarioTree ==
    [][(Recursed /\ opt.recursedirs /\ fs = ScenarioTree
            /\ v[walk.it] = Root) =>
          w' = w \o <<"root/a", "root/b/c">>]_vars

\* C22: rr -D c root on that tree
C22_Witness ==
    /\ pc = "randomize"
    /\ opt.recursedirs
    /\ fs = ScenarioTree
    /\ Fixed = <<"c">>
    /\ Pool = <<"root/a", "root/b/c">>

\* C23: with -r or -D, nothing that lies below a directory matching an
\* exclude pattern is put in the list of parameters, whether that directory
\* is an argument or is met while going through an argument.
C23_ExcludedDirs ==
    (opt.recursive /\ pc \in {"expand", "recurse", "randomize"}) =>
       \A n \in 1 .. Len(w) :
          \A d \in fs.dirs :
             any_match(d, opt.exclude) => ~IsUnder(w[n], d)

(***************************************************************************)
(* The command line                                                        *)
(***************************************************************************)
\* the positions after the command name that hold "--"
DashPositions == {p \in 2 .. Len(v) : v[p] = "--"}

FirstDash == CHOOSE p \in DashPositions : \A q \in DashPositions : p <= q

\* main has split a command line that has a command name
HasSplit ==
    /\ pc \notin {"get_options", "main"}
    /\ err # UsageError
    /\ ~opt.printonly
    /\ Len(v) > 0

\* C24: when rr runs a command (no -p), the first "--" after the command
\* name ends the command: the parameters start right after it, the command
\* of every batch is what precedes it followed by "--" itself, or without
\* it when -d is given, and the parameters of every batch are taken from
\* what follows it; when there is no "--", the command is the command name
\* alone and everything after it is the list of parameters.
C24_DashDash ==
    HasSplit =>
       IF DashPositions # {}
       THEN /\ rng.args = FirstDash + 1
            /\ Fixed = SubSeq(v, 1, FirstDash - 1) \o
                          (IF opt.dashdash THEN <<"--">> ELSE <<>>)
            /\ \A n \in 1 .. Len(batches) :
                  /\ SubSeq(batches[n].argv, 1, Len(Fixed)) = Fixed
                  /\ batches[n].from > FirstDash
                  /\ Slice(batches[n]) =
                        SelectSeq(SubSeq(v, batches[n].from,
                                         batches[n].to - 1), Kept)
       ELSE /\ Fixed = <<v[1]>>
            /\ rng.args = 2
            /\ pc = "randomize" => Pool = Tail(v)
            /\ \A n \in 1 .. Len(batches) :
                  SubSeq(batches[n].argv, 1, 1) = <<v[1]>>

\* C24: rr -d -N c -- bb --: the first -- is dropped, the second one is a
\* parameter like any other
C24_Witness ==
    /\ pc = "replaced"
    /\ ~opt.dashdash /\ ~opt.randomize
    /\ v = <<"c", "--", "bb", "--">>
    /\ Len(batches) = 1
    /\ Last.argv = <<"c", "bb", "--">>

\* main has split a command line that is not empty
SplitDone ==
    /\ pc \notin {"get_options", "main"}
    /\ err # UsageError
    /\ Len(v) > 0

\* C25, as stated: whatever the options, the command is not empty and
\* starts with the first word of the command line, and so does every batch.
C25_Original ==
    SplitDone =>
       /\ Len(Fixed) > 0
       /\ Fixed[1] = v[1]

\* C25: without -p the command is not empty and its first word is the first
\* word of the command line, which is the first word of every batch; with
\* -p the command is empty and every word of the command line is a
\* parameter, so that a batch starts with a parameter.
C25_CommandFirst ==
    SplitDone =>
       IF opt.printonly
       THEN /\ Fixed = <<>>
            /\ rng.args = 1
            /\ \A n \in 1 .. Len(batches) :
                  batches[n].argv = SelectSeq(SubSeq(v, batches[n].from,
                                                     batches[n].to - 1), Kept)
       ELSE /\ Len(Fixed) > 0
            /\ Fixed[1] = v[1]
            /\ \A n \in 1 .. Len(batches) :
                  /\ Len(batches[n].argv) > 0
                  /\ batches[n].argv[1] = v[1]

\* C25: rr -N -n 2 c a bb, two batches that start with c
C25_Witness ==
    /\ pc = "replaced"
    /\ ~opt.printonly /\ ~opt.randomize
    /\ opt.maxargs = 2
    /\ v = <<"c", "a", "bb">>
    /\ Len(batches) = 2
    /\ batches[1].argv = <<"c", "a">>
    /\ Last.argv = <<"c", "bb">>

(***************************************************************************)
(* The byte budget                                                         *)
(***************************************************************************)
\* C26: the byte budget is the system limit minus the room for the path
\* lookup, minus the sum of length + 1 over the environment, minus the
\* margin, as a subtraction of integers; it is never above the system
\* limit, and a larger margin never gives a larger budget.
C26_Budget ==
    (pc = "returned" /\ call.f = "compute_maxsize") =>
        /\ ret = ArgMax - PathMax - envsize(call.envp) - call.margin
        /\ ret <= ArgMax
        /\ \A m \in BudgetMargins :
              m >= call.margin => compute_maxsize(call.envp, m) <= ret

(***************************************************************************)
(* Copies                                                                  *)
(***************************************************************************)
\* the parameters of the command line, before any randomization
GivenParams == Range(v, split(v, opt).args, split(v, opt).end_args)

\* C27: when -M copies is given, every parameter the filter keeps has been
\* passed to the command copies times its number of occurrences on the
\* command line once the run is over (the list is repeated before it is
\* randomized).
C27_Copies ==
    (/\ call.f = "get_options"
     /\ "M" \in call.letters
     /\ Ended)
    => \A n \in 1 .. Len(GivenParams) :
          Kept(GivenParams[n]) =>
             Count(Concat(Slices), GivenParams[n]) =
                call.copies * Count(GivenParams, GivenParams[n])

(***************************************************************************)
(* The echo                                                                *)
(***************************************************************************)
\* C28: with -v there is one echo per batch, in the order of the batches,
\* and it is the batch as composed, command first, without the terminator;
\* it is out before the batch is forked or exec'd (a child runs what was
\* echoed for its batch), and when the echo of a batch is out no child of
\* an earlier batch is left: the supervisor has waited for it.
C28_Echo ==
    opt.verbose =>
       /\ Len(out) = Len(batches)
       /\ \A n \in 1 .. Len(batches) :
             /\ out[n] = batches[n].argv
             /\ nullptr \notin {out[n][p] : p \in 1 .. Len(out[n])}
             /\ SubSeq(out[n], 1, Len(Fixed)) = Fixed
       /\ \A c \in kids :
             /\ c.pid = Len(batches)
             /\ c.argv = Append(out[c.pid], nullptr)
       /\ pc = "filled" => kids = {}

\* C28: rr -v -n 2 c a bb, shuffled as a bb: two echoes, the first child
\* has ended and was waited for before the second
C28_Witness ==
    /\ pc = "replaced"
    /\ opt.verbose /\ ~opt.printonly
    /\ out = <<<<"c", "a">>, <<"c", "bb">>>>
    /\ batches[1].how = "fork"
    /\ Last.how = "exec"
    /\ kids = {}

(***************************************************************************)
(* The filter of the first version                                         *)
(***************************************************************************)
\* C29: may_add of the first rr.C appends the candidate iff keep of the
\* latest version accepts it, that is, iff it matches no regex of exclude
\* and only is empty or it matches a regex of only.
C29_MayAdd ==
    (pc = "returned" /\ call.f = "may_add") =>
        LET added == ret = <<call.s>>
            accepted ==
               /\ ~\E n \in 1 .. Len(call.exclude) : call.s \in call.exclude[n]
               /\ \/ call.only = <<>>
                  \/ \E n \in 1 .. Len(call.only) : call.s \in call.only[n]
        IN  /\ ret \in {<<>>, <<call.s>>}
            /\ added <=> accepted
            /\ added <=> keep(call.s, [opt EXCEPT !.exclude = call.exclude,
                                                  !.only = call.only])

(***************************************************************************)
(* The running byte total                                                  *)
(***************************************************************************)
\* C30: once a batch is filled, current is the sum of length + 1 over the
\* words of the batch, the command and the parameters appended, the
\* terminator left out: it is the size of the command, the same for every
\* batch, plus the size of the parameters appended, and the parameters
\* appended are those of the range gone through that the filter keeps, so
\* that a rejected parameter adds neither bytes nor a word.
C30_RunningTotal ==
    Len(batches) > 0 =>
       /\ initial = bytes(Fixed)
       /\ current = bytes(Last.argv)
       /\ current = initial + bytes(Slice(Last))
       /\ Slice(Last) = SelectSeq(SubSeq(v, Last.from, Last.to - 1), Kept)
       /\ Len(Last.argv) =
             reset + Cardinality({p \in Last.from .. Last.to - 1 : Kept(v[p])})

\* C30: rr -n 2 -x 'b.*' c a bb a, in that order: the second batch
\* restarts from the size of c, and bb, rejected, is stepped over
C30_Witness ==
    /\ pc = "replaced"
    /\ Len(batches) = 2
    /\ Fixed = <<"c">>
    /\ batches[1].argv = <<"c", "a">>
    /\ Last.argv = <<"c", "a">>
    /\ Last.to - Last.from = 2
    /\ initial = 2
    /\ current = 4

(***************************************************************************)
(* List files                                                              *)
(***************************************************************************)
\* the words of the command line itself, out of argv
GivenFixed ==
    Range(call.argv, split(call.argv, opt).cmd, split(call.argv, opt).end_cmd)

\* C33: whatever the lines of the list files, once main has split the
\* arguments of a command line that is not empty, the command is what it
\* would be without any list file (the split of the words of the command
\* line alone), and every line is among the parameters.
C33_ListFiles ==
    (call.f = "main" /\ pc = "randomize" /\ call.argv # <<>>) =>
        /\ Fixed = GivenFixed
        /\ rng.end_args = Len(v) + 1
        /\ rng.args <= Len(call.argv) + 1

(***************************************************************************)
(* Batches and the command alone                                           *)
(***************************************************************************)
\* C32: when the filter keeps at least one parameter of the pool, no batch
\* that is forked or exec'd is the command alone: each one, the last one
\* included, has at least one parameter after the command.
C32_NeverAlone ==
    (\E p \in 1 .. Len(Pool) : Kept(Pool[p])) =>
        \A n \in 1 .. Len(batches) :
            batches[n].how \in {"fork", "exec"} =>
                Len(Slice(batches[n])) >= 1

(***************************************************************************)
(* Maximal batches                                                         *)
(***************************************************************************)
\* the batches after which the loop went on
NotFinal(b) == b.how \in {"fork", "forkfail", "print"}

\* the byte ceiling cannot close a batch: all that is kept fits at once
NoCeiling == bytes(Fixed) + bytes(SelectSeq(Pool, Kept)) < opt.maxsize

\* C31: a batch after which the loop went on is as large as it can be: it
\* has maxargs words, or the parameter the cursor was left on is kept and
\* would have brought the byte total to maxsize or more; when the byte
\* ceiling cannot be reached, such a batch has exactly maxargs minus the
\* size of the command parameters.  cmd a b c d with -n 3 is run as
\* cmd a b, then cmd c d.
C31_Maximal ==
    /\ \A n \in 1 .. Len(batches) :
          NotFinal(batches[n]) =>
             /\ \/ Len(batches[n].argv) = opt.maxargs
                \/ /\ batches[n].to < rng.end_args
                   /\ Kept(v[batches[n].to])
                   /\ bytes(batches[n].argv) + strlen(v[batches[n].to]) + 1
                         >= opt.maxsize
             /\ NoCeiling =>
                   Len(Slice(batches[n])) = opt.maxargs - Len(Fixed)
    /\ (/\ v = <<"cmd", "a", "b", "c", "d">>
        /\ opt.maxargs = 3 /\ opt.exclude = <<>> /\ NoCeiling
        /\ ~opt.printonly
        /\ pc = "replaced")
       => [n \in 1 .. Len(batches) |-> batches[n].argv] =
             <<<<"cmd", "a", "b">>, <<"cmd", "c", "d">>>>

\* C31: rr -N -n 3 cmd a b c d
C31_Witness ==
    /\ pc = "replaced"
    /\ v = <<"cmd", "a", "b", "c", "d">>
    /\ opt.maxargs = 3 /\ opt.exclude = <<>> /\ NoCeiling
    /\ batches[1].how = "fork"
    /\ batches[1].argv = <<"cmd", "a", "b">>
    /\ Last.argv = <<"cmd", "c", "d">>

(***************************************************************************)
(* The status of the run without -e                                        *)
(***************************************************************************)
\* the batches of a run from the cursor it, at most n of them, as the
\* filter, -n, the byte ceiling and -O alone decide them
RECURSIVE Plan(_, _)
Plan(it, n) ==
    IF n = 0 THEN <<>>
    ELSE LET f == fill(Fixed, Size(bytes(Fixed)), it)
         IN  <<f.v>> \o (IF f.i # rng.end_args /\ ~opt.once
                         THEN Plan(f.i, n - 1)
                         ELSE <<>>)

\* what the supervisor reports when it leaves for a reason of its own
OwnErrors ==
    {Msg("fork: error"), Msg("waitpid: error"), ExecvpError, CantObey,
     NoCommand, NoArguments}

\* C34: without -e the outcomes of the children decide nothing: the batches
\* run are the first ones of the sequence that the parameters and the
\* options alone determine; the supervisor is never killed by the signal of
\* a child and never exits with the code of one; a run that is not cut
\* short by an error of its own (fork, waitpid, execvp, the options) goes
\* through the whole sequence and ends by becoming the command of the last
\* batch, whose status is then the status of the run, or, under -p, by
\* exit(0).
C34_LastStatus ==
    (~opt.exitonerror /\ Len(batches) > 0) =>
        /\ [n \in 1 .. Len(batches) |-> batches[n].argv] =
              SubSeq(Plan(rng.args, MaxBatches), 1, Len(batches))
        /\ pc # "killed"
        /\ pc = "replaced" =>
              /\ Last.how = "exec"
              /\ status = 0
              /\ Len(batches) = Len(Plan(rng.args, MaxBatches))
        /\ pc = "exit" =>
              \/ /\ opt.printonly /\ status = 0 /\ Last.how = "printlast"
                 /\ Len(batches) = Len(Plan(rng.args, MaxBatches))
              \/ /\ status = 1 /\ err \in OwnErrors
                 /\ Last.how \in {"fork", "forkfail", "execfail"}

\* C34: three batches, the child of the first one exited with 2, the child
\* of the second one was killed, and the run ends as the third command
C34_Witness ==
    /\ pc = "replaced"
    /\ ~opt.exitonerror
    /\ Len(batches) = 3
    /\ batches[1].how = "fork" /\ batches[2].how = "fork"
    /\ Last.how = "exec"
    /\ err = Report(Signaled(9))
    /\ status = 0
====
